---- MODULE Spec2Model ----
(***************************************************************************)
(* Model of whisper_server.py: the process-wide model cache, the startup   *)
(* pre-load, and the POST /transcribe handler, step by step.               *)
(*                                                                         *)
(* All handlers are `async def` coroutines that never await: the event     *)
(* loop runs one handler from its first line to its return before it       *)
(* starts another.  Every blocking call (subprocess.run, the WhisperModel  *)
(* constructor, inference) is a state in which the handler holds the loop. *)
(***************************************************************************)
EXTENDS Integers, FiniteSets, Sequences, TLC

\* Number of client requests in a run.
NumRequests == 2

Requests == 1..NumRequests

\* ---------------------------------------------------------------- values
\* Python's None, and a key that is missing from the request body.
NoneValue == "<None>"
Absent == "<absent>"
\* A JSON value that is not a string (e.g. "format": 5).
NonString == "<int>"

AVAILABLE_MODELS ==
    {"tiny", "tiny.en", "base", "base.en", "small", "small.en",
     "medium", "medium.en", "large-v2", "large-v3"}

\* WHISPER_DEFAULT_MODEL: the built-in default, or a name the environment
\* sets that is not in AVAILABLE_MODELS.
DefaultChoices == {"base", "turbo"}

DEVICE == "auto"
COMPUTE_TYPE == "auto"

ConvertFormats == {"webm", "ogg", "mp4", "m4a", "opus", "oga"}

\* Request bodies the clients send.
AudioInputs == {Absent, "", "bad", "good"}
ModelInputs == {Absent, NoneValue, "tiny", "turbo"}
FormatInputs == {Absent, "ogg", "wav", NonString}

\* Paths: the decoded-input temp file of request r and the path
\* convert_to_wav derives from it.
NoPath == <<0, "none">>
TmpFile(r) == <<r, "in">>
\* Variant: one fixed output name for all conversions.
OutputPath_Fixed(p) == <<0, "out">>
OutputPath(p) == <<p[1], "out">>

NoHandle == [name |-> "", device |-> "", compute_type |-> "", by |-> -1]

VARIABLES
    DEFAULT_MODEL,       \* configuration, fixed at process start
    boot,                \* "init", "loading", "started"
    model_cache,         \* name -> handle or NoHandle
    current_model_name,  \* name or NoneValue
    files,               \* temp files on disk
    pc,                  \* request -> position of its handler
    req,                 \* request -> the handler's locals and its outcome
    hist,                \* request -> what its get_model call did
    calc                 \* one handler's data path, followed value by value

vars == <<DEFAULT_MODEL, boot, model_cache, current_model_name, files, pc, req, hist, calc>>

\* The server's own variables, for the steps that only follow data.
server == <<DEFAULT_MODEL, boot, model_cache, current_model_name, files, pc, req, hist>>

CacheKeys == AVAILABLE_MODELS \cup DefaultChoices

Blank ==
    [audio_data |-> NoneValue, model_name |-> NoneValue, file_format |-> "",
     tmp_path |-> NoPath, converted_path |-> NoPath, audio_path |-> NoPath,
     whisper_model |-> NoHandle, error |-> "", status |-> 0, detail |-> "",
     ffmpeg |-> "none", engine_path |-> NoPath, engine |-> "none",
     cleanup |-> "none"]

NoHist == [name |-> "", load |-> "none", handle |-> NoHandle, waiting |-> {}]

NoCalc == [step |-> "off"]

ServerInit ==
    /\ DEFAULT_MODEL \in DefaultChoices
    /\ boot = "init"
    /\ model_cache = [n \in CacheKeys |-> NoHandle]
    /\ current_model_name = NoneValue
    /\ files = {}
    /\ pc = [r \in Requests |-> "idle"]
    /\ req = [r \in Requests |-> Blank]
    /\ hist = [r \in Requests |-> NoHist]

Init == ServerInit /\ calc = NoCalc

\* ---------------------------------------------------------------- helpers
\* dict.get(key, default)
Get(v, default) == IF v = Absent THEN default ELSE v

\* `not audio_data`
Falsy(v) == v \in {NoneValue, ""}

IsString(v) == v \notin {NoneValue, NonString}

\* str.lower() on the format labels the clients send
LowerTable ==
    [OGG |-> "ogg", Ogg |-> "ogg", OGA |-> "oga", OPUS |-> "opus",
     WEBM |-> "webm", WebM |-> "webm", MP4 |-> "mp4", M4A |-> "m4a",
     WAV |-> "wav", MP3 |-> "mp3"]

\* Variant: the format is compared as given, without .lower().
Lower_AsGiven(s) == s

Lower(s) == IF s \in DOMAIN LowerTable THEN LowerTable[s] ELSE s

NeedsConversion(file_format) == Lower(file_format) \in ConvertFormats

\* Variant: handlers are not serialized by the loop (a `def` handler run in
\* the thread pool, or an await inside the handler).
LoopFree_Unserialized == boot = "started"

\* The event loop is free: startup has finished and no handler is running.
LoopFree ==
    /\ boot = "started"
    /\ \A q \in Requests : pc[q] \in {"idle", "arrived", "closed"}

\* ---------------------------------------------------------------- get_model
\* Variant: any name the engine knows is accepted, listed or not.
ResolveName_AnyKnown(model_name) ==
    IF model_name \notin CacheKeys THEN DEFAULT_MODEL ELSE model_name

\* Variant: the fallback is the literal "base", not the configured default.
ResolveName_LiteralBase(model_name) ==
    IF model_name \notin AVAILABLE_MODELS THEN "base" ELSE model_name

ResolveName(model_name) ==
    IF model_name \notin AVAILABLE_MODELS THEN DEFAULT_MODEL ELSE model_name

\* Variant: the cache is never consulted.
CacheHit_Never(name) == FALSE

CacheHit(name) == model_cache[name] # NoHandle

\* torch.cuda.is_available() on the hosts modelled: torch missing, or no CUDA
\* device (three of the four branches of lines 109-118 end in "cpu").
TorchCuda == {FALSE}

ResolveDevice(cuda) ==
    IF DEVICE = "auto" THEN (IF cuda THEN "cuda" ELSE "cpu") ELSE DEVICE

ResolveComputeType(device) ==
    IF COMPUTE_TYPE = "auto"
    THEN (IF device = "cuda" THEN "float16" ELSE "int8")
    ELSE COMPUTE_TYPE

\* WhisperModel(model_name, device, compute_type, download_root), made by caller `by`
NewHandle(name, cuda, by) ==
    [name |-> name, device |-> ResolveDevice(cuda),
     compute_type |-> ResolveComputeType(ResolveDevice(cuda)), by |-> by]

\* Variant: the insert forgets to record the current model.
CacheInsert_NoMarker(name, h) ==
    /\ model_cache' = [model_cache EXCEPT ![name] = h]
    /\ current_model_name' = current_model_name

\* model_cache[model_name] = model; current_model_name = model_name
CacheInsert(name, h) ==
    /\ model_cache' = [model_cache EXCEPT ![name] = h]
    /\ current_model_name' = name

\* Variant: a failed load drops the cached models.
LoadFailed_ClearsCache ==
    /\ model_cache' = [n \in CacheKeys |-> NoHandle]
    /\ current_model_name' = NoneValue

\* WhisperModel(...) raised: get_model is left before the cache is touched.
LoadFailed ==
    /\ model_cache' = model_cache
    /\ current_model_name' = current_model_name

\* ---------------------------------------------------------------- startup
StartupBegin ==
    /\ boot = "init"
    /\ boot' = IF CacheHit(ResolveName(DEFAULT_MODEL)) THEN "started" ELSE "loading"
    /\ UNCHANGED <<calc, DEFAULT_MODEL, model_cache, current_model_name, files, pc, req, hist>>

\* Variant: startup_event does not catch the failed pre-load.
StartupLoad_Fatal ==
    /\ boot = "loading"
    /\ \E ok \in BOOLEAN, cuda \in TorchCuda :
         IF ok
         THEN /\ CacheInsert(ResolveName(DEFAULT_MODEL),
                             NewHandle(ResolveName(DEFAULT_MODEL), cuda, 0))
              /\ boot' = "started"
         ELSE /\ LoadFailed
              /\ boot' = "crashed"
    /\ UNCHANGED <<calc, DEFAULT_MODEL, files, pc, req, hist>>

StartupLoad ==
    /\ boot = "loading"
    /\ \E ok \in BOOLEAN, cuda \in TorchCuda :
         IF ok
         THEN CacheInsert(ResolveName(DEFAULT_MODEL),
                          NewHandle(ResolveName(DEFAULT_MODEL), cuda, 0))
         ELSE LoadFailed
    /\ boot' = "started"
    /\ UNCHANGED <<calc, DEFAULT_MODEL, files, pc, req, hist>>

\* ---------------------------------------------------------------- /transcribe
\* A client sends a request; it waits until the loop runs its handler.
Arrive(r) ==
    /\ boot = "started"
    /\ pc[r] = "idle"
    /\ \A q \in Requests : q < r => pc[q] # "idle"
    /\ pc' = [pc EXCEPT ![r] = "arrived"]
    /\ UNCHANGED <<calc, DEFAULT_MODEL, boot, model_cache, current_model_name, files, req, hist>>

\* Variant: the audio check sits inside the try block, so its HTTPException
\* is caught by `except Exception` and re-raised as a 500.
NoAudioResponse_InsideTry(rec) ==
    [rec EXCEPT !.status = 500, !.detail = "No audio data provided"]

\* The 400 raised before the try block.
NoAudioResponse(rec) ==
    [rec EXCEPT !.status = 400, !.detail = "No audio data provided"]

\* Lines 194-205: read the body; reject a request without audio.
Begin(r) ==
    /\ LoopFree
    /\ pc[r] = "arrived"
    /\ \A q \in Requests : q < r => pc[q] \notin {"idle", "arrived"}
    /\ \E a \in AudioInputs, m \in ModelInputs, f \in FormatInputs :
         LET rec == [Blank EXCEPT !.audio_data = Get(a, NoneValue),
                                  !.model_name = Get(m, DEFAULT_MODEL),
                                  !.file_format = Get(f, "ogg")]
         IN IF Falsy(rec.audio_data)
            THEN /\ req' = [req EXCEPT ![r] = NoAudioResponse(rec)]
                 /\ pc' = [pc EXCEPT ![r] = "done"]
            ELSE /\ req' = [req EXCEPT ![r] = rec]
                 /\ pc' = [pc EXCEPT ![r] = "decode"]
    /\ UNCHANGED <<calc, DEFAULT_MODEL, boot, model_cache, current_model_name, files, hist>>

\* Lines 208-218: base64-decode and write the temp file.
Decode(r) ==
    /\ pc[r] = "decode"
    /\ IF req[r].audio_data = "bad"
       THEN /\ req' = [req EXCEPT ![r].error = "binascii.Error"]
            /\ pc' = [pc EXCEPT ![r] = "except"]
            /\ files' = files
       ELSE \E t \in {"ok", "create_fail", "write_fail"} :
              CASE t = "ok" ->
                     /\ files' = files \cup {TmpFile(r)}
                     /\ req' = [req EXCEPT ![r].tmp_path = TmpFile(r)]
                     /\ pc' = [pc EXCEPT ![r] = "normalize"]
                [] t = "create_fail" ->
                     /\ files' = files
                     /\ req' = [req EXCEPT ![r].error = "OSError: create"]
                     /\ pc' = [pc EXCEPT ![r] = "except"]
                [] t = "write_fail" ->
                     /\ files' = files \cup {TmpFile(r)}
                     /\ req' = [req EXCEPT ![r].error = "OSError: write"]
                     /\ pc' = [pc EXCEPT ![r] = "except"]
    /\ UNCHANGED <<calc, DEFAULT_MODEL, boot, model_cache, current_model_name, hist>>

\* Lines 221-223 and 65-72: pick the audio path, start the transcoder if needed.
Normalize(r) ==
    /\ pc[r] = "normalize"
    /\ LET rec == [req[r] EXCEPT !.audio_path = req[r].tmp_path]
       IN IF ~IsString(rec.file_format)
          THEN /\ req' = [req EXCEPT ![r] = [rec EXCEPT !.error = "AttributeError"]]
               /\ pc' = [pc EXCEPT ![r] = "except"]
          ELSE IF NeedsConversion(rec.file_format)
          THEN \E present \in BOOLEAN :
                 IF present
                 THEN /\ req' = [req EXCEPT ![r] = [rec EXCEPT !.ffmpeg = "running"]]
                      /\ pc' = [pc EXCEPT ![r] = "ffmpeg"]
                 ELSE /\ req' = [req EXCEPT ![r] =
                            [rec EXCEPT !.ffmpeg = "absent",
                                        !.converted_path = rec.tmp_path]]
                      /\ pc' = [pc EXCEPT ![r] = "model"]
          ELSE /\ req' = [req EXCEPT ![r] = rec]
               /\ pc' = [pc EXCEPT ![r] = "model"]
    /\ UNCHANGED <<calc, DEFAULT_MODEL, boot, model_cache, current_model_name, files, hist>>

\* What subprocess.run can do: the exit kind, and whether the output file
\* exists afterwards (a killed or failed ffmpeg may have written part of it).
FfmpegOutcomes ==
    {[kind |-> k, wrote |-> w] : k \in {"exit0", "nonzero", "timeout"}, w \in BOOLEAN}
        \cup {[kind |-> "oserror", wrote |-> FALSE]}

\* Variant: the return code is not looked at, only the output file.
ConvertResult_IgnoreExit(input_path, kind, exists) ==
    IF exists THEN OutputPath(input_path) ELSE input_path

\* Lines 83-91: the path convert_to_wav returns.
ConvertResult(input_path, kind, exists) ==
    IF kind = "exit0" /\ exists THEN OutputPath(input_path) ELSE input_path

\* Lines 75-91 and 223-225: subprocess.run returns, times out or raises.
FfmpegReturn(r) ==
    /\ pc[r] = "ffmpeg"
    /\ \E o \in FfmpegOutcomes :
         LET out == OutputPath(req[r].tmp_path)
             disk == IF o.wrote THEN files \cup {out} ELSE files
             res == ConvertResult(req[r].tmp_path, o.kind, out \in disk)
         IN /\ files' = disk
            /\ req' = [req EXCEPT ![r].ffmpeg = o.kind,
                                  ![r].converted_path = res,
                                  ![r].audio_path =
                                      IF res # req[r].tmp_path THEN res ELSE @]
    /\ pc' = [pc EXCEPT ![r] = "model"]
    /\ UNCHANGED <<calc, DEFAULT_MODEL, boot, model_cache, current_model_name, hist>>

\* Lines 228 and 94-104: substitute the default, look the name up in the cache.
GetModel(r) ==
    /\ pc[r] = "model"
    /\ LET name == ResolveName(req[r].model_name)
           waiting == {q \in Requests : pc[q] = "arrived"}
       IN IF CacheHit(name)
          THEN /\ req' = [req EXCEPT ![r].whisper_model = model_cache[name]]
               /\ hist' = [hist EXCEPT ![r] =
                      [name |-> name, load |-> "hit",
                       handle |-> model_cache[name], waiting |-> waiting]]
               /\ pc' = [pc EXCEPT ![r] = "transcribe"]
          ELSE /\ req' = req
               /\ hist' = [hist EXCEPT ![r] =
                      [name |-> name, load |-> "loading",
                       handle |-> NoHandle, waiting |-> waiting]]
               /\ pc' = [pc EXCEPT ![r] = "loading"]
    /\ UNCHANGED <<calc, DEFAULT_MODEL, boot, model_cache, current_model_name, files>>

\* Variant: a failed construction is tried again.
LoadModel_Retry(r) ==
    /\ pc[r] = "loading"
    /\ \E ok \in BOOLEAN, cuda \in TorchCuda :
         IF ok
         THEN LET h == NewHandle(hist[r].name, cuda, r)
              IN /\ CacheInsert(hist[r].name, h)
                 /\ req' = [req EXCEPT ![r].whisper_model = h]
                 /\ hist' = [hist EXCEPT ![r].load = "ok", ![r].handle = h]
                 /\ pc' = [pc EXCEPT ![r] = "transcribe"]
         ELSE /\ LoadFailed
              /\ req' = req
              /\ hist' = [hist EXCEPT ![r].load = "fail"]
              /\ pc' = pc
    /\ UNCHANGED <<calc, DEFAULT_MODEL, boot, files>>

\* Lines 106-136: resolve device and precision, construct the model, cache it.
LoadModel(r) ==
    /\ pc[r] = "loading"
    /\ \E ok \in BOOLEAN, cuda \in TorchCuda :
         IF ok
         THEN LET h == NewHandle(hist[r].name, cuda, r)
              IN /\ CacheInsert(hist[r].name, h)
                 /\ req' = [req EXCEPT ![r].whisper_model = h]
                 /\ hist' = [hist EXCEPT ![r].load = "ok", ![r].handle = h]
                 /\ pc' = [pc EXCEPT ![r] = "transcribe"]
         ELSE /\ LoadFailed
              /\ req' = [req EXCEPT ![r].error = "model load failed"]
              /\ hist' = [hist EXCEPT ![r].load = "fail"]
              /\ pc' = [pc EXCEPT ![r] = "except"]
    /\ UNCHANGED <<calc, DEFAULT_MODEL, boot, files>>

\* Lines 230-239: whisper_model.transcribe(audio_path, ...)
Transcribe(r) ==
    /\ pc[r] = "transcribe"
    /\ \E ok \in BOOLEAN :
         IF ok
         THEN /\ req' = [req EXCEPT ![r].engine = "called",
                                    ![r].engine_path = req[r].audio_path]
              /\ pc' = [pc EXCEPT ![r] = "collect"]
         ELSE /\ req' = [req EXCEPT ![r].engine = "raised",
                                    ![r].engine_path = req[r].audio_path,
                                    ![r].error = "engine error"]
              /\ pc' = [pc EXCEPT ![r] = "except"]
    /\ UNCHANGED <<calc, DEFAULT_MODEL, boot, model_cache, current_model_name, files, hist>>

\* Lines 242-250: consume the segments, build the 200 response.
Collect(r) ==
    /\ pc[r] = "collect"
    /\ \E ok \in BOOLEAN :
         IF ok
         THEN /\ req' = [req EXCEPT ![r].engine = "consumed", ![r].status = 200]
              /\ pc' = [pc EXCEPT ![r] = "finally"]
         ELSE /\ req' = [req EXCEPT ![r].engine = "raised",
                                    ![r].error = "segment error"]
              /\ pc' = [pc EXCEPT ![r] = "except"]
    /\ UNCHANGED <<calc, DEFAULT_MODEL, boot, model_cache, current_model_name, files, hist>>

\* Variant: the 500 carries a fixed text instead of str(e).
ErrorResponse_Generic(rec) ==
    [rec EXCEPT !.status = 500, !.detail = "Internal Server Error"]

\* Lines 252-254: HTTPException(status_code=500, detail=str(e))
ErrorResponse(rec) == [rec EXCEPT !.status = 500, !.detail = rec.error]

\* Variant: the error is recorded and the pipeline goes on.
Except_Continue(r) ==
    /\ pc[r] = "except"
    /\ req' = [req EXCEPT ![r] = ErrorResponse(req[r])]
    /\ pc' = [pc EXCEPT ![r] = "transcribe"]
    /\ UNCHANGED <<calc, DEFAULT_MODEL, boot, model_cache, current_model_name, files, hist>>

Except(r) ==
    /\ pc[r] = "except"
    /\ req' = [req EXCEPT ![r] = ErrorResponse(req[r])]
    /\ pc' = [pc EXCEPT ![r] = "finally"]
    /\ UNCHANGED <<calc, DEFAULT_MODEL, boot, model_cache, current_model_name, files, hist>>

\* Lines 258-267: the paths the finally block unlinks.
CleanupTargets(rec) ==
    (IF rec.tmp_path # NoPath THEN {rec.tmp_path} ELSE {})
        \cup (IF rec.converted_path # NoPath /\ rec.converted_path # rec.tmp_path
              THEN {rec.converted_path} ELSE {})

\* Lines 256-267: unlink each target; a failing unlink is swallowed.
Finally(r) ==
    /\ pc[r] = "finally"
    /\ \E failing \in SUBSET (CleanupTargets(req[r]) \cap files) :
         /\ files' = files \ (CleanupTargets(req[r]) \ failing)
         /\ req' = [req EXCEPT ![r].cleanup =
                IF failing = {} THEN "ok" ELSE "unlink_failed"]
    /\ pc' = [pc EXCEPT ![r] = "done"]
    /\ UNCHANGED <<calc, DEFAULT_MODEL, boot, model_cache, current_model_name, hist>>

\* The response is sent and the handler's frame is gone.
Close(r) ==
    /\ pc[r] = "done"
    /\ pc' = [pc EXCEPT ![r] = "closed"]
    /\ req' = [req EXCEPT ![r] = Blank]
    /\ UNCHANGED <<calc, DEFAULT_MODEL, boot, model_cache, current_model_name, files, hist>>

\* Lines 152-160: GET /health
health ==
    [status |-> "healthy",
     model_loaded |-> current_model_name # NoneValue,
     current_model |-> current_model_name,
     available_models |-> AVAILABLE_MODELS]

Next ==
    \/ StartupBegin
    \/ StartupLoad
    \/ \E r \in Requests :
         \/ Arrive(r)
         \/ Begin(r)
         \/ Decode(r)
         \/ Normalize(r)
         \/ FfmpegReturn(r)
         \/ GetModel(r)
         \/ LoadModel(r)
         \/ Transcribe(r)
         \/ Collect(r)
         \/ Except(r)
         \/ Finally(r)
         \/ Close(r)

Spec == Init /\ [][Next]_vars

\* ================================================================ data paths
\* The specifications below follow the values one handler computes, or two
\* handlers on bodies that differ in one field, with the server's variables
\* at rest.
Pair == {"a", "b"}

\* ---------------------------------------------------------------- language
LanguageInputs == {Absent, NoneValue, "", "auto", "AUTO", "en", "de"}

MIN_SILENCE_DURATION_MS == 500
SPEECH_PAD_MS == 400

\* Variant: only "auto" is mapped to None.
NormalizeLanguage_OnlyAuto(language) ==
    IF language = "auto" THEN NoneValue ELSE language

\* Lines 197-198: `if language in ("auto", ""): language = None`
NormalizeLanguage(language) ==
    IF language \in {"auto", ""} THEN NoneValue ELSE language

\* Lines 230-239: the arguments of whisper_model.transcribe
EngineCall(audio_path, language) ==
    [audio_path |-> audio_path, language |-> language, task |-> "transcribe",
     vad_filter |-> TRUE,
     vad_parameters |-> [min_silence_duration_ms |-> MIN_SILENCE_DURATION_MS,
                         speech_pad_ms |-> SPEECH_PAD_MS]]

NoCall == [audio_path |-> NoPath, language |-> "<not called>", task |-> "",
           vad_filter |-> FALSE,
           vad_parameters |-> [min_silence_duration_ms |-> 0, speech_pad_ms |-> 0]]

LanguageInit ==
    /\ ServerInit
    /\ \E la, lb \in LanguageInputs :
         calc = [step |-> "language",
                 in |-> [a |-> la, b |-> lb],
                 at |-> [x \in Pair |-> "body"],
                 language |-> [x \in Pair |-> NoneValue],
                 call |-> [x \in Pair |-> NoCall]]

\* Lines 196-198
ReadLanguage(x) ==
    /\ calc.step = "language" /\ calc.at[x] = "body"
    /\ calc' = [calc EXCEPT
                  !.language[x] = NormalizeLanguage(Get(calc.in[x], NoneValue)),
                  !.at[x] = "read"]
    /\ UNCHANGED server

\* Lines 230-239, on the same audio for both bodies
InvokeEngine(x) ==
    /\ calc.step = "language" /\ calc.at[x] = "read"
    /\ calc' = [calc EXCEPT
                  !.call[x] = EngineCall(<<0, "in">>, calc.language[x]),
                  !.at[x] = "invoked"]
    /\ UNCHANGED server

LanguageNext == \E x \in Pair : ReadLanguage(x) \/ InvokeEngine(x)

SpecLanguage == LanguageInit /\ [][LanguageNext]_vars

\* ---------------------------------------------------------------- format
FormatLabels ==
    {Absent, NonString, "",
     "webm", "ogg", "mp4", "m4a", "opus", "oga",
     "WEBM", "WebM", "OGG", "Ogg", "MP4", "M4A", "OPUS", "OGA",
     "wav", "WAV", "mp3", "MP3", "flac"}

FormatInit ==
    /\ ServerInit
    /\ \E f \in FormatLabels :
         calc = [step |-> "format", in |-> f, at |-> "body",
                 file_format |-> NoneValue, tmp_path |-> NoPath,
                 converted_path |-> NoPath, audio_path |-> NoPath,
                 which |-> "unasked", ffmpeg |-> "none",
                 disk |-> {}, engine_path |-> NoPath]

\* Lines 199 and 216-218: the format, and the decoded audio in tmp_path
ReadFormat ==
    /\ calc.step = "format" /\ calc.at = "body"
    /\ calc' = [calc EXCEPT !.file_format = Get(calc.in, "ogg"),
                            !.tmp_path = TmpFile(1),
                            !.disk = {TmpFile(1)},
                            !.at = "normalize"]
    /\ UNCHANGED server

\* Lines 221-225 and 65-73: the format test, and `which ffmpeg`
DecideConversion ==
    /\ calc.step = "format" /\ calc.at = "normalize"
    /\ LET rec == [calc EXCEPT !.audio_path = calc.tmp_path]
       IN IF ~IsString(rec.file_format)
          THEN calc' = [rec EXCEPT !.at = "failed"]
          ELSE IF NeedsConversion(rec.file_format)
          THEN \E present \in BOOLEAN :
                 IF present
                 THEN calc' = [rec EXCEPT !.which = "found", !.at = "ffmpeg"]
                 ELSE calc' = [rec EXCEPT !.which = "missing",
                                          !.converted_path = rec.tmp_path,
                                          !.at = "engine"]
          ELSE calc' = [rec EXCEPT !.at = "engine"]
    /\ UNCHANGED server

\* Lines 75-91 and 223-225: subprocess.run returns, times out or raises
RunTranscoder ==
    /\ calc.step = "format" /\ calc.at = "ffmpeg"
    /\ \E o \in FfmpegOutcomes :
         LET out == OutputPath(calc.tmp_path)
             disk == IF o.wrote THEN calc.disk \cup {out} ELSE calc.disk
             res == ConvertResult(calc.tmp_path, o.kind, out \in disk)
         IN calc' = [calc EXCEPT !.ffmpeg = o.kind,
                                 !.disk = disk,
                                 !.converted_path = res,
                                 !.audio_path = IF res # calc.tmp_path THEN res ELSE @,
                                 !.at = "engine"]
    /\ UNCHANGED server

\* Lines 230-231: the file given to whisper_model.transcribe
PassToEngine ==
    /\ calc.step = "format" /\ calc.at = "engine"
    /\ calc' = [calc EXCEPT !.engine_path = calc.audio_path, !.at = "invoked"]
    /\ UNCHANGED server

FormatNext == ReadFormat \/ DecideConversion \/ RunTranscoder \/ PassToEngine

SpecFormat == FormatInit /\ [][FormatNext]_vars

\* ---------------------------------------------------------------- data URL
\* Text is a sequence of one-character strings, bytes a sequence of 0..255.
MaxPayloadLen == 4
PayloadChars == {"A", "/", "=", ","}
Payloads == UNION {[1..n -> PayloadChars] : n \in 0..MaxPayloadLen}

DataUrlPrefix ==
    <<"d", "a", "t", "a", ":", "a", "u", "d", "i", "o", "/", "o", "g", "g",
      ";", "b", "a", "s", "e", "6", "4", ",">>

B64Alphabet ==
    <<"A", "B", "C", "D", "E", "F", "G", "H", "I", "J", "K", "L", "M",
      "N", "O", "P", "Q", "R", "S", "T", "U", "V", "W", "X", "Y", "Z",
      "a", "b", "c", "d", "e", "f", "g", "h", "i", "j", "k", "l", "m",
      "n", "o", "p", "q", "r", "s", "t", "u", "v", "w", "x", "y", "z",
      "0", "1", "2", "3", "4", "5", "6", "7", "8", "9", "+", "/">>

InAlphabet(c) == \E i \in DOMAIN B64Alphabet : B64Alphabet[i] = c
B64Value(c) == (CHOOSE i \in DOMAIN B64Alphabet : B64Alphabet[i] = c) - 1

HasComma(s) == \E i \in DOMAIN s : s[i] = ","
FirstComma(s) == CHOOSE i \in DOMAIN s : s[i] = "," /\ \A j \in 1..(i - 1) : s[j] # ","

\* str.split(","): the pieces between the commas
RECURSIVE Split(_)
Split(s) ==
    IF ~HasComma(s) THEN <<s>>
    ELSE LET i == FirstComma(s)
         IN <<SubSeq(s, 1, i - 1)>> \o Split(SubSeq(s, i + 1, Len(s)))

\* Variant: the audio field is decoded as it came.
StripDataUrl_Keep(audio_data) == audio_data

\* Lines 209-210: `if "," in audio_data: audio_data = audio_data.split(",")[1]`
StripDataUrl(audio_data) ==
    IF HasComma(audio_data) THEN Split(audio_data)[2] ELSE audio_data

\* Line 213: base64.b64decode(s) with validate=False, as binascii.a2b_base64
\* does it: characters outside the alphabet are skipped, a complete pad
\* ends the input, an incomplete last quad is an error.
RECURSIVE A2B(_, _, _, _, _, _)
A2B(s, i, quad_pos, leftchar, pads, out) ==
    IF i > Len(s)
    THEN IF quad_pos # 0 THEN [ok |-> FALSE, bytes |-> <<>>]
                         ELSE [ok |-> TRUE, bytes |-> out]
    ELSE IF s[i] = "="
    THEN IF quad_pos >= 2 /\ quad_pos + pads + 1 >= 4
         THEN [ok |-> TRUE, bytes |-> out]
         ELSE A2B(s, i + 1, quad_pos, leftchar,
                  IF quad_pos >= 2 THEN pads + 1 ELSE pads, out)
    ELSE IF ~InAlphabet(s[i])
    THEN A2B(s, i + 1, quad_pos, leftchar, pads, out)
    ELSE LET v == B64Value(s[i])
         IN CASE quad_pos = 0 -> A2B(s, i + 1, 1, v, 0, out)
              [] quad_pos = 1 ->
                   A2B(s, i + 1, 2, v % 16, 0,
                       Append(out, (leftchar * 4 + v \div 16) % 256))
              [] quad_pos = 2 ->
                   A2B(s, i + 1, 3, v % 4, 0,
                       Append(out, (leftchar * 16 + v \div 4) % 256))
              [] quad_pos = 3 ->
                   A2B(s, i + 1, 0, 0, 0,
                       Append(out, (leftchar * 64 + v) % 256))

B64Decode(s) == A2B(s, 1, 0, 0, 0, <<>>)

\* Body a carries the payload behind the data-URL prefix, body b carries it bare.
DataUrlInit ==
    /\ ServerInit
    /\ \E P \in Payloads :
         calc = [step |-> "dataurl", payload |-> P,
                 at |-> [x \in Pair |-> "body"],
                 audio_data |-> [a |-> DataUrlPrefix \o P, b |-> P],
                 audio_bytes |-> [x \in Pair |-> <<>>],
                 tmp_file |-> [x \in Pair |-> <<>>]]

\* Lines 194 and 201-202
CheckAudio(x) ==
    /\ calc.step = "dataurl" /\ calc.at[x] = "body"
    /\ calc' = [calc EXCEPT
                  !.at[x] = IF calc.audio_data[x] = <<>> THEN "rejected" ELSE "strip"]
    /\ UNCHANGED server

\* Lines 208-210
StripPrefix(x) ==
    /\ calc.step = "dataurl" /\ calc.at[x] = "strip"
    /\ calc' = [calc EXCEPT !.audio_data[x] = StripDataUrl(calc.audio_data[x]),
                            !.at[x] = "decode"]
    /\ UNCHANGED server

\* Line 213
DecodeAudio(x) ==
    /\ calc.step = "dataurl" /\ calc.at[x] = "decode"
    /\ LET d == B64Decode(calc.audio_data[x])
       IN calc' = [calc EXCEPT !.audio_bytes[x] = d.bytes,
                               !.at[x] = IF d.ok THEN "write" ELSE "failed"]
    /\ UNCHANGED server

\* Lines 216-218
WriteTemp(x) ==
    /\ calc.step = "dataurl" /\ calc.at[x] = "write"
    /\ calc' = [calc EXCEPT !.tmp_file[x] = calc.audio_bytes[x],
                            !.at[x] = "written"]
    /\ UNCHANGED server

DataUrlNext ==
    \E x \in Pair : CheckAudio(x) \/ StripPrefix(x) \/ DecodeAudio(x) \/ WriteTemp(x)

SpecDataUrl == DataUrlInit /\ [][DataUrlNext]_vars

\* ---------------------------------------------------------------- segments
MaxTextLen == 3
MaxSegments == 2
TextChars == {"x", " "}
SegmentTexts == UNION {[1..n -> TextChars] : n \in 0..MaxTextLen}
SegmentLists == UNION {[1..k -> SegmentTexts] : k \in 0..MaxSegments}

RECURSIVE LStrip(_)
LStrip(t) == IF t # <<>> /\ Head(t) = " " THEN LStrip(Tail(t)) ELSE t

RECURSIVE RStrip(_)
RStrip(t) ==
    IF t # <<>> /\ t[Len(t)] = " " THEN RStrip(SubSeq(t, 1, Len(t) - 1)) ELSE t

\* Variant: only leading whitespace is removed.
Strip_LeftOnly(t) == LStrip(t)

\* Line 243: segment.text.strip()
Strip(t) == RStrip(LStrip(t))

\* Line 243: " ".join(...)
RECURSIVE Join(_)
Join(parts) ==
    IF parts = <<>> THEN <<>>
    ELSE IF Len(parts) = 1 THEN parts[1]
    ELSE parts[1] \o <<" ">> \o Join(Tail(parts))

\* The engine's info while its segment generator has yielded n of total
\* segments: the fields are final once the generator is exhausted.
EngineInfo(n, total) ==
    IF n = total
    THEN [language |-> "en", language_probability |-> "p", duration |-> "d"]
    ELSE [language |-> "<pending>", language_probability |-> "<pending>",
          duration |-> "<pending>"]

NoResponse == [text |-> <<>>, language |-> "", language_probability |-> "",
               duration |-> ""]

\* Line 230: transcribe has returned the segment generator and info
SegmentsInit ==
    /\ ServerInit
    /\ \E ts \in SegmentLists :
         calc = [step |-> "segments", texts |-> ts, at |-> "consume",
                 yielded |-> 0, segments_list |-> <<>>, full_text |-> <<>>,
                 response |-> NoResponse]

\* Line 242: list(segments) takes the next segment from the generator
ConsumeSegment ==
    /\ calc.step = "segments" /\ calc.at = "consume"
    /\ calc.yielded < Len(calc.texts)
    /\ calc' = [calc EXCEPT
                  !.yielded = @ + 1,
                  !.segments_list = Append(@, calc.texts[calc.yielded + 1])]
    /\ UNCHANGED server

\* Lines 242-243: the generator is exhausted, the text is joined
JoinText ==
    /\ calc.step = "segments" /\ calc.at = "consume"
    /\ calc.yielded = Len(calc.texts)
    /\ calc' = [calc EXCEPT
                  !.full_text =
                      Join([i \in DOMAIN calc.segments_list |->
                               Strip(calc.segments_list[i])]),
                  !.at = "joined"]
    /\ UNCHANGED server

\* Lines 245-250: the response reads info
Respond ==
    /\ calc.step = "segments" /\ calc.at = "joined"
    /\ LET info == EngineInfo(calc.yielded, Len(calc.texts))
       IN calc' = [calc EXCEPT
                     !.response = [text |-> calc.full_text,
                                   language |-> info.language,
                                   language_probability |-> info.language_probability,
                                   duration |-> info.duration],
                     !.at = "responded"]
    /\ UNCHANGED server

SegmentsNext == ConsumeSegment \/ JoinText \/ Respond

SpecSegments == SegmentsInit /\ [][SegmentsNext]_vars

\* ================================================================ claims
OwnFiles(r) == {f \in files : f[1] = r}

LaterStepErrors == {"model load failed", "engine error", "segment error"}
PipelineErrors == {"AttributeError"} \cup LaterStepErrors
TranscoderFailures == {"absent", "nonzero", "timeout", "oserror"}
AfterNormalize == {"model", "loading", "transcribe", "collect", "except", "finally", "done"}

\* C1: once a /transcribe request has finished (200, 400 or 500) and no
\* unlink failed, no temp file of that request is on disk: neither its
\* decoded-input file nor an output file the transcoder wrote.  Stated for
\* the requests whose own write of the decoded file did not fail.
C1_NoTempFilesLeft ==
    \A r \in Requests :
        (/\ pc[r] = "done"
         /\ req[r].cleanup # "unlink_failed"
         /\ req[r].error # "OSError: write") => OwnFiles(r) = {}

\* C5: a request without an audio field is answered 400 "No audio data
\* provided" in its first step; it creates no temp file, runs no transcoder,
\* no get_model and no engine, and leaves cache and current model unchanged.
C5_NoAudioIs400 ==
    [][\A r \in Requests :
          (pc[r] = "arrived" /\ pc'[r] # "arrived" /\ req'[r].audio_data = NoneValue)
          => /\ pc'[r] = "done"
             /\ req'[r].status = 400
             /\ req'[r].detail = "No audio data provided"
             /\ req'[r].tmp_path = NoPath
             /\ req'[r].ffmpeg = "none"
             /\ req'[r].engine = "none"
             /\ hist'[r] = NoHist
             /\ files' = files
             /\ model_cache' = model_cache
             /\ current_model_name' = current_model_name]_vars

C5_Witness ==
    \E r \in Requests :
        /\ pc[r] = "done" /\ req[r].audio_data = NoneValue /\ req[r].status = 400
        /\ \E n \in CacheKeys : model_cache[n] # NoHandle

\* C6: a request whose audio is absent, or present but not decodable as
\* base64, is answered 400, not 500.
C6_MalformedIs400 ==
    \A r \in Requests :
        (pc[r] = "done" /\ req[r].audio_data \in {NoneValue, "bad"})
        => req[r].status = 400

\* C7: a failure raised while normalizing, resolving the model or
\* transcribing ends the pipeline, is answered 500 with the failure
\* description as detail, and the finally block has run by the time the
\* request is done.
C7_FailuresBecome500 ==
    \A r \in Requests :
        req[r].error \in PipelineErrors
        => /\ pc[r] \in {"except", "finally", "done"}
           /\ pc[r] \in {"finally", "done"}
                => (req[r].status = 500 /\ req[r].detail = req[r].error)
           /\ pc[r] = "done" => req[r].cleanup # "none"

C7_Witness ==
    \E r \in Requests :
        /\ pc[r] = "done" /\ req[r].error = "engine error"
        /\ req[r].status = 500 /\ req[r].detail = "engine error"
        /\ req[r].cleanup = "ok" /\ req[r].tmp_path \notin files

\* C8: when the transcoder is absent, times out, exits non-zero or raises,
\* convert_to_wav returns its input path, the request goes on to model
\* resolution and transcription with the unconverted file, and the response
\* is 500 only for a failure of those later steps, 200 otherwise.
C8_TranscoderNeverFails ==
    \A r \in Requests :
        req[r].ffmpeg \in TranscoderFailures
        => /\ pc[r] \in AfterNormalize
           /\ req[r].converted_path = req[r].tmp_path
           /\ req[r].audio_path = req[r].tmp_path
           /\ req[r].engine # "none" => req[r].engine_path = req[r].tmp_path
           /\ req[r].error \in {""} \cup LaterStepErrors
           /\ pc[r] = "done" =>
                req[r].status = (IF req[r].error = "" THEN 200 ELSE 500)

C8_Witness ==
    \E r \in Requests :
        /\ pc[r] = "done" /\ req[r].ffmpeg = "timeout"
        /\ req[r].status = 200 /\ req[r].engine_path = TmpFile(r)

\* Successful instantiations of name n made by requests.
OkLoads(n) == {r \in Requests : hist[r].name = n /\ hist[r].load = "ok"}

\* r1 called get_model for a name that was not cached while r2 was in
\* flight, and r2 has since made its own call for the same name.
RacePair(r1, r2) ==
    /\ r1 # r2
    /\ r2 \in hist[r1].waiting
    /\ hist[r1].load \in {"ok", "fail"}
    /\ hist[r2].name = hist[r1].name
    /\ hist[r2].load \in {"hit", "ok", "fail"}

\* C2 as stated: of two concurrent first calls to get_model for the same
\* uncached name, exactly one instantiates and both callers receive the
\* same handle.
C2_ExactlyOneLoadBothServed ==
    \A r1, r2 \in Requests :
        RacePair(r1, r2)
        => /\ Cardinality(OkLoads(hist[r1].name)) = 1
           /\ hist[r1].handle # NoHandle
           /\ hist[r2].handle = hist[r1].handle

\* C2 amended: of two concurrent first calls to get_model for the same
\* uncached name, at most one instantiation succeeds and callers that
\* receive a handle receive the same one; when the first caller's
\* instantiation succeeds the second makes no attempt and reuses that handle.
C2_AtMostOneLoadSameHandle ==
    \A r1, r2 \in Requests :
        RacePair(r1, r2)
        => /\ Cardinality(OkLoads(hist[r1].name)) <= 1
           /\ (hist[r1].handle # NoHandle /\ hist[r2].handle # NoHandle)
                => hist[r2].handle = hist[r1].handle
           /\ hist[r1].load = "ok"
                => (hist[r2].load = "hit" /\ hist[r2].handle = hist[r1].handle)

C2_Witness ==
    \E r1, r2 \in Requests :
        /\ RacePair(r1, r2)
        /\ hist[r1].load = "ok" /\ hist[r2].load = "hit"
        /\ hist[r2].handle = hist[r1].handle

\* C3: a cache entry, once inserted, is never removed or replaced; a
\* get_model call for a cached name returns that entry without resolving
\* device/precision or instantiating; every handle a request holds is the
\* cache's entry for its name, also after the request has failed.
C3_OneHandlePerName ==
    [][/\ \A n \in CacheKeys :
             model_cache[n] # NoHandle => model_cache'[n] = model_cache[n]
       /\ \A r \in Requests :
             /\ (pc[r] = "model" /\ pc'[r] # "model"
                 /\ model_cache[ResolveName(req[r].model_name)] # NoHandle)
                => /\ pc'[r] = "transcribe"
                   /\ hist'[r].load = "hit"
                   /\ req'[r].whisper_model = model_cache[ResolveName(req[r].model_name)]
             /\ req'[r].whisper_model # NoHandle
                => req'[r].whisper_model = model_cache'[req'[r].whisper_model.name]]_vars

C3_Witness ==
    \E r1, r2 \in Requests :
        /\ r1 # r2
        /\ hist[r1].load = "ok" /\ hist[r2].load = "hit"
        /\ hist[r2].handle = hist[r1].handle
        /\ model_cache[hist[r1].name] = hist[r1].handle
        /\ pc[r2] = "done" /\ req[r2].status = 500

InHandler(r) == pc[r] \notin {"idle", "arrived", "closed"}

\* What C4 says of every get_model call with an unsupported name: it acts on
\* the configured default, and fails only if loading the default fails.
ActsOnDefault(r) ==
    /\ hist[r].name = DEFAULT_MODEL
    /\ hist[r].load \in {"hit", "ok"}
         => (/\ req[r].whisper_model = model_cache[DEFAULT_MODEL]
             /\ req[r].whisper_model.name = DEFAULT_MODEL)
    /\ hist[r].load = "fail" => req[r].error = "model load failed"

\* C4 as stated: a get_model call with a name outside the supported set (a
\* null or absent model field included) has the outcome of
\* get_model(default) and never inserts an entry keyed by that name.
C4_UnsupportedNeverAKey ==
    \A r \in Requests :
        (InHandler(r) /\ hist[r].load # "none"
         /\ req[r].model_name \notin AVAILABLE_MODELS)
        => /\ ActsOnDefault(r)
           /\ hist[r].load = "ok" => hist[r].name # req[r].model_name

\* C4 amended: ... and never inserts an entry keyed by an unsupported name
\* other than the configured default itself.
C4_UnsupportedUsesDefault ==
    \A r \in Requests :
        (InHandler(r) /\ hist[r].load # "none"
         /\ req[r].model_name \notin AVAILABLE_MODELS)
        => /\ ActsOnDefault(r)
           /\ \A n \in CacheKeys \ (AVAILABLE_MODELS \cup {DEFAULT_MODEL}) :
                 model_cache[n] = NoHandle

C4_Witness ==
    \E r \in Requests :
        /\ pc[r] = "done" /\ req[r].status = 200
        /\ req[r].model_name = "turbo" /\ DEFAULT_MODEL = "base"
        /\ hist[r].load = "ok" /\ req[r].whisper_model.name = "base"

\* C9: a failed instantiation leaves cache and current model as they were,
\* is not retried by that request, which ends with a 500 carrying the
\* failure; a get_model call that finds its name uncached (as after a failed
\* load) attempts the load.
C9_FailedLoadChangesNothing ==
    [][\A r \in Requests :
          /\ (pc[r] = "loading" /\ pc'[r] = "except")
             => (/\ model_cache' = model_cache
                 /\ current_model_name' = current_model_name
                 /\ hist'[r].load = "fail")
          /\ hist[r].load = "fail"
             => (/\ hist'[r].load = "fail"
                 /\ pc'[r] \in {"except", "finally", "done", "closed"}
                 /\ pc'[r] \in {"finally", "done"}
                      => (req'[r].status = 500 /\ req'[r].detail = "model load failed"))
          /\ (pc[r] = "model" /\ pc'[r] # "model"
              /\ model_cache[hist'[r].name] = NoHandle)
             => pc'[r] = "loading"]_vars

C9_Witness ==
    \E r1, r2 \in Requests :
        /\ r1 < r2
        /\ hist[r1].load = "fail" /\ hist[r2].name = hist[r1].name
        /\ hist[r2].load = "ok"
        /\ \E n \in CacheKeys \ {hist[r1].name} : model_cache[n] # NoHandle

\* The calls a handler blocks in: subprocess.run, WhisperModel(...), and
\* the consumption of the segments (inference).
Blocked(r) == pc[r] \in {"ffmpeg", "loading", "collect"}

\* C10: while one request waits on the transcoder, a model load or
\* inference, the next request in line can start.
C10_OthersProgress ==
    \A r1, r2 \in Requests :
        (/\ Blocked(r1)
         /\ pc[r2] = "arrived"
         /\ \A q \in Requests : q < r2 => pc[q] \notin {"idle", "arrived"})
        => ENABLED Begin(r2)

Cached == {n \in CacheKeys : model_cache[n] # NoHandle}

\* C11: startup attempts the default load once; when it fails the server
\* still starts, with an empty cache and no current model, and a later
\* get_model call that resolves to the default and finds it uncached
\* attempts the load.
C11_StartupLoadNotFatal ==
    [][/\ boot = "init" => boot' = "loading"
       /\ boot = "started" => boot' = "started"
       /\ boot = "loading"
            => /\ boot' = "started"
               /\ \/ /\ model_cache'[DEFAULT_MODEL].by = 0
                     /\ current_model_name' = DEFAULT_MODEL
                  \/ /\ \A n \in CacheKeys : model_cache'[n] = NoHandle
                     /\ current_model_name' = NoneValue
       /\ \A r \in Requests :
             (pc[r] = "model" /\ pc'[r] # "model"
              /\ hist'[r].name = DEFAULT_MODEL
              /\ model_cache[DEFAULT_MODEL] = NoHandle)
             => pc'[r] = "loading"]_vars

C11_Witness ==
    \E r \in Requests :
        /\ \A q \in Requests : q < r => hist[q].name # DEFAULT_MODEL
        /\ hist[r].name = DEFAULT_MODEL /\ hist[r].load = "ok"
        /\ model_cache[DEFAULT_MODEL].by = r
        /\ pc[r] = "done" /\ req[r].status = 200

\* The steps of section 4.4, by handler position.
Rank(p) ==
    CASE p = "decode" -> 1
      [] p \in {"normalize", "ffmpeg"} -> 2
      [] p \in {"model", "loading"} -> 3
      [] p \in {"transcribe", "collect"} -> 4
      [] OTHER -> 0

FailedOrEnded == {"except", "finally", "done", "closed"}

\* C15: a request takes the steps Decoding, Normalizing, ModelResolution,
\* Transcribing in this order, none skipped or repeated; get_model is called
\* only after normalization has finished; the engine is invoked only with a
\* handle obtained by this request; after a failure no pipeline step runs;
\* a finished request has exactly one outcome, which does not change.
C15_StepsInOrder ==
    [][\A r \in Requests :
          /\ (Rank(pc[r]) > 0 /\ Rank(pc'[r]) > 0)
             => Rank(pc'[r]) \in {Rank(pc[r]), Rank(pc[r]) + 1}
          /\ (Rank(pc[r]) = 0 /\ Rank(pc'[r]) > 0)
             => (pc[r] = "arrived" /\ pc'[r] = "decode")
          /\ (hist[r].load = "none" /\ hist'[r].load # "none")
             => (/\ pc[r] = "model"
                 /\ req[r].audio_path # NoPath
                 /\ req[r].ffmpeg # "running")
          /\ req'[r].engine # "none"
             => (/\ req'[r].whisper_model # NoHandle
                 /\ hist'[r].load \in {"hit", "ok"}
                 /\ req'[r].whisper_model = hist'[r].handle)
          /\ req[r].error # "" => pc'[r] \in FailedOrEnded
          /\ pc'[r] = "done"
             => (/\ req'[r].status \in {200, 400, 500}
                 /\ req'[r].status = 200
                      <=> (req'[r].error = "" /\ req'[r].engine = "consumed"))
          /\ (req[r].status # 0 /\ pc'[r] # "closed")
             => req'[r].status = req[r].status]_vars

C15_Witness ==
    \E r \in Requests :
        /\ pc[r] = "done" /\ req[r].status = 200
        /\ req[r].ffmpeg = "exit0" /\ req[r].audio_path = OutputPath(TmpFile(r))
        /\ hist[r].load = "ok" /\ req[r].engine = "consumed"

\* C17: within one request the transcoder runs at most once, a model
\* instantiation is attempted at most once and the engine is invoked at most
\* once; after a failure the request only ends.
C17_NoRetries ==
    [][\A r \in Requests :
          /\ pc'[r] = "ffmpeg" => req'[r].ffmpeg = "running"
          /\ (req[r].ffmpeg \notin {"none", "running"} /\ pc'[r] # "closed")
             => req'[r].ffmpeg = req[r].ffmpeg
          /\ pc'[r] = "loading" => hist'[r].load = "loading"
          /\ hist[r].load \in {"hit", "ok", "fail"} => hist'[r].load = hist[r].load
          /\ pc'[r] = "transcribe" => req'[r].engine = "none"
          /\ (req[r].engine \in {"consumed", "raised"} /\ pc'[r] # "closed")
             => req'[r].engine = req[r].engine
          /\ req[r].error # ""
             => (/\ pc'[r] \in FailedOrEnded
                 /\ pc'[r] # "closed" => req'[r].error = req[r].error)]_vars

C17_Witness ==
    \E r \in Requests :
        /\ pc[r] = "done" /\ req[r].status = 500
        /\ req[r].ffmpeg = "nonzero" /\ hist[r].load = "fail"
        /\ req[r].engine = "none"

PathsOf(rec) == {rec.tmp_path, rec.converted_path, rec.audio_path, rec.engine_path}

\* C18: every path a request holds (the file it wrote, the transcoder's
\* output path, the path given to the engine, the paths it unlinks) is its
\* own, and every file created or deleted in a step belongs to the request
\* that took the step.
C18_FilesOwnedByRequest ==
    [][/\ \A r \in Requests :
             \A p \in PathsOf(req'[r]) \cup CleanupTargets(req'[r]) :
                 p = NoPath \/ p[1] = r
       /\ \A f \in (files \ files') \cup (files' \ files) :
             \E r \in Requests : f[1] = r /\ InHandler(r) /\ pc'[r] # pc[r]]_vars

C18_Witness ==
    \E r1, r2 \in Requests :
        /\ pc[r1] = "closed" /\ OwnFiles(r1) # {}
        /\ pc[r2] = "done" /\ req[r2].cleanup = "ok"
        /\ req[r2].converted_path = OutputPath(TmpFile(r2))
        /\ OwnFiles(r2) = {}

\* C19: the current-model marker is None exactly when the cache is empty and
\* otherwise names a cached key; an insert sets it to the inserted key and
\* every other step (a cache hit, a failed load) leaves it unchanged;
\* /health reports model_loaded exactly when a handle is cached.
MarkerMatchesCache ==
    /\ current_model_name = NoneValue <=> Cached = {}
    /\ current_model_name # NoneValue => current_model_name \in Cached
    /\ health.model_loaded <=> Cached # {}

C19_MarkerTracksCache ==
    [][/\ MarkerMatchesCache
       /\ MarkerMatchesCache'
       /\ model_cache' # model_cache
            => \E n \in CacheKeys :
                  /\ model_cache[n] = NoHandle
                  /\ model_cache'[n] # NoHandle
                  /\ current_model_name' = n
       /\ model_cache' = model_cache
            => current_model_name' = current_model_name]_vars

C19_Witness ==
    \E r1, r2 \in Requests :
        /\ hist[r1].load = "ok" /\ current_model_name = hist[r1].name
        /\ r1 < r2 /\ hist[r2].load = "hit" /\ hist[r2].name # hist[r1].name
        /\ health.model_loaded /\ health.current_model = hist[r1].name

\* C20: every cached key is a supported name or the configured default, so
\* the cache never holds more than (number of supported names + 1) handles.
C20_CacheKeysBounded ==
    /\ \A n \in Cached : n \in AVAILABLE_MODELS \cup {DEFAULT_MODEL}
    /\ Cardinality(Cached) <= Cardinality(AVAILABLE_MODELS) + 1

C20_Witness ==
    /\ DEFAULT_MODEL = "turbo"
    /\ Cached = {"turbo", "tiny"}
    /\ \E r \in Requests : pc[r] = "done" /\ req[r].model_name = NoneValue

Unspecified == {Absent, "auto", ""}

\* C13: requests whose language is "auto", "" or missing invoke the engine
\* with identical arguments and language None; every other language value
\* reaches the engine unchanged.
C13_AutoAndEmptyAreUnspecified ==
    calc.step = "language" =>
        /\ \A x \in Pair :
              calc.at[x] = "invoked"
              => calc.call[x].language =
                    (IF calc.in[x] \in Unspecified THEN NoneValue ELSE calc.in[x])
        /\ (/\ calc.at["a"] = "invoked" /\ calc.at["b"] = "invoked"
            /\ calc.in["a"] \in Unspecified /\ calc.in["b"] \in Unspecified)
           => calc.call["a"] = calc.call["b"]

C13_Witness ==
    /\ calc.step = "language"
    /\ calc.in["a"] = "auto" /\ calc.in["b"] = ""
    /\ calc.at["a"] = "invoked" /\ calc.at["b"] = "invoked"
    /\ calc.call["a"] = calc.call["b"] /\ calc.call["a"].language = NoneValue

\* The labels of FormatLabels that spell a convertible format in some case.
ConvertLabels ==
    {"webm", "ogg", "mp4", "m4a", "opus", "oga",
     "WEBM", "WebM", "OGG", "Ogg", "MP4", "M4A", "OPUS", "OGA"}

Decided == calc.step = "format" /\ calc.at \in {"engine", "invoked"}

TranscoderRan == calc.ffmpeg \in {o.kind : o \in FfmpegOutcomes}

\* C12 as stated: the transcoder is invoked exactly for the convertible
\* formats. Violated when the ffmpeg binary is not on the host.
C12_InvokedIffConvertible ==
    Decided => (TranscoderRan <=> calc.file_format \in ConvertLabels)

\* C12, amended: for a request that reaches normalization, the conversion
\* function is entered exactly for the convertible formats (in any case) and
\* the transcoder runs exactly when, in addition, the binary is found; for
\* every other format the transcoder is not invoked, no converted file
\* exists and the engine is given the decoded input file.
C12_InvokedIffConvertibleAndPresent ==
    Decided =>
        /\ (calc.which # "unasked") <=> (calc.file_format \in ConvertLabels)
        /\ TranscoderRan <=> (calc.file_format \in ConvertLabels /\ calc.which = "found")
        /\ calc.file_format \notin ConvertLabels
           => /\ calc.ffmpeg = "none"
              /\ calc.converted_path = NoPath
              /\ calc.disk = {calc.tmp_path}
              /\ calc.at = "invoked" => calc.engine_path = calc.tmp_path

C12_Witness ==
    /\ calc.step = "format" /\ calc.at = "invoked"
    /\ calc.in = "OGG" /\ calc.ffmpeg = "exit0"
    /\ calc.engine_path = OutputPath(calc.tmp_path)

\* A non-empty payload in canonical base64: whole quads of alphabet
\* characters, the last quad ending in at most two pad characters.
ValidBase64(P) ==
    /\ Len(P) > 0 /\ Len(P) % 4 = 0
    /\ \A i \in DOMAIN P : InAlphabet(P[i]) \/ (P[i] = "=" /\ i >= Len(P) - 1)
    /\ (P[Len(P) - 1] = "=") => (P[Len(P)] = "=")

Settled(x) == calc.at[x] \in {"rejected", "failed", "written"}

Trimmed(t) ==
    LET solid == {i \in DOMAIN t : t[i] # " "}
    IN IF solid = {} THEN <<>>
       ELSE SubSeq(t, CHOOSE i \in solid : \A j \in solid : i <= j,
                      CHOOSE i \in solid : \A j \in solid : i >= j)

\* The first n trimmed texts, a single space between neighbours.
RECURSIVE SpaceJoined(_, _)
SpaceJoined(ts, n) ==
    IF n = 0 THEN <<>>
    ELSE IF n = 1 THEN Trimmed(ts[1])
    ELSE SpaceJoined(ts, n - 1) \o <<" ">> \o Trimmed(ts[n])

\* C16: the response text is the trimmed segment texts joined by single
\* spaces in segment order (empty without segments), and the info fields
\* of the response are read after every segment has been consumed.
C16_TextIsJoinedTrimmedSegments ==
    (calc.step = "segments" /\ calc.at = "responded")
    => /\ calc.response.text = SpaceJoined(calc.texts, Len(calc.texts))
       /\ calc.segments_list = calc.texts
       /\ calc.response.language = EngineInfo(0, 0).language
       /\ calc.response.duration = EngineInfo(0, 0).duration

C16_Witness ==
    /\ calc.step = "segments" /\ calc.at = "responded"
    /\ calc.texts = << <<" ", "x">>, <<"x", " ", " ">> >>
    /\ calc.response.text = <<"x", " ", "x">>

====
